---- MODULE Spec2Model ----
(***************************************************************************)
(* Model of freee_kintai.py, a command-line client of the freee HR API.    *)
(*                                                                         *)
(* A JSON object is a function from its keys to its values; the empty      *)
(* object is <<>>.  String values are TLA+ strings, the integer ids are    *)
(* TLA+ integers.  A file is [exists, doc].  A calendar date formatted     *)
(* with "%Y-%m-%d" is the tuple <<y, m, d>>, the empty string is <<>>.     *)
(* One run of a command is one action of Spec; the remote servers and the  *)
(* user at the terminal are the nondeterministic inputs of the run.        *)
(* SpecConc runs two invocations at once, each file read and each write of *)
(* a command being a step of its own.                                      *)
(***************************************************************************)
EXTENDS Integers, Sequences, FiniteSets, TLC

VARIABLES
    config,     \* content of CONFIG_FILE (config.json)
    token,      \* content of TOKEN_FILE (token.json)
    cmd,        \* the command of the last run
    args,       \* its parsed arguments (status: date, yesterday)
    now,        \* the local date datetime.now() gave the last run
    config0,    \* config.json when the last run started
    token0,     \* token.json when the last run started
    ending,     \* how the last run ended: "ok", "exit1", "exception";
                \* "none" at the shell prompt, before the next command
    out,        \* what the last run printed, in order
    http,       \* the HTTP requests the last run sent, in order
    refresh,    \* the token endpoint's answer to the run's refresh exchange
    prompts,    \* the list pickers shown in the last run and the answers typed
    reply,      \* the answer of the API to the run's last request
    pc,         \* SpecConc: position of each concurrent invocation
    local       \* SpecConc: local variables of each concurrent invocation

vars == <<config, token, cmd, args, now, config0, token0, ending, out,
          http, refresh, prompts, reply, pc, local>>

seqVars == <<cmd, args, now, config0, token0, ending, out, http,
             refresh, prompts, reply>>
concVars == <<pc, local>>

\* ------------------------------------------------------------------ bounds

\* Longest list of companies or employees the API returns.
MaxList == 2

\* ------------------------------------------------------------- JSON, files

\* (a variant that starts a new dict instead of updating the one loaded)
PutFresh(doc, k, v) == [x \in {k} |-> v]

\* dict item assignment: doc[k] = v
Put(doc, k, v) == [x \in DOMAIN doc \cup {k} |-> IF x = k THEN v ELSE doc[x]]

IdKeys == {"company_id", "employee_id"}

\* (a variant that tests `k in doc` instead of the value's truth)
Present(doc, k) == k \in DOMAIN doc

\* dict.get(k) in a boolean context: absent, "" and 0 are all false.
Truthy(doc, k) ==
    /\ k \in DOMAIN doc
    /\ IF k \in IdKeys THEN doc[k] # 0 ELSE doc[k] # ""

NoFile == [exists |-> FALSE, doc |-> <<>>]
File(doc) == [exists |-> TRUE, doc |-> doc]

load_config(file) == IF ~file.exists THEN <<>> ELSE file.doc

\* (a variant that merges the document into what the file holds)
save_config_merging(file, doc) ==
    File([k \in DOMAIN file.doc \cup DOMAIN doc |->
            IF k \in DOMAIN doc THEN doc[k] ELSE file.doc[k]])

\* open(CONFIG_FILE, "w") truncates: the document written is the whole file.
save_config(file, doc) == File(doc)

load_token(file) == IF ~file.exists THEN <<>> ELSE file.doc

\* (a variant that merges the document into what the file holds)
save_token_merging(file, doc) ==
    File([k \in DOMAIN file.doc \cup DOMAIN doc |->
            IF k \in DOMAIN doc THEN doc[k] ELSE file.doc[k]])

\* open(TOKEN_FILE, "w") truncates: the document written is the whole file.
save_token(file, doc) == File(doc)

\* ------------------------------------------------------------ HTTP, output

TOKEN_URL == "https://accounts.secure.freee.co.jp/public_api/token"
USERS_ME == "/users/me"
EMPLOYEES == "/employees"
TIME_CLOCKS == "/employees/{employee_id}/time_clocks"
AVAILABLE_TYPES == "/employees/{employee_id}/time_clocks/available_types"
REDIRECT_URI == "urn:ietf:wg:oauth:2.0:oob"

TokenRequest(grant, cfg, sent) ==
    [method |-> "POST", url |-> TOKEN_URL, grant |-> grant, bearer |-> "",
     user |-> cfg["client_id"], password |-> cfg["client_secret"],
     employee |-> 0, sent |-> sent]

ApiRequest(method, url, access_token, employee, sent) ==
    [method |-> method, url |-> url, grant |-> "", bearer |-> access_token,
     user |-> "", password |-> "", employee |-> employee, sent |-> sent]

NoResponse == [status |-> 0, body |-> <<>>]

Line(msg, arg) == [msg |-> msg, arg |-> arg]

\* The command a printed message tells the user to run first, "" if none.
Instructs(msg) ==
    CASE msg = "not_authenticated" -> "auth"
      [] msg = "run_auth_again" -> "auth"
      [] msg = "setup_first" -> "setup"
      [] msg = "info_first" -> "info"
      [] OTHER -> ""

\* Process exit status: sys.exit(1) and an unhandled exception both give 1.
ExitCode(e) == IF e = "ok" THEN 0 ELSE 1

\* ---------------------------------------------------------------- inputs

\* Answers of the token endpoint: HTTP 200 with a token document (with or
\* without a rotated refresh token, or without an access token), or an error.
TokenDocs ==
    { [access_token |-> "a2", refresh_token |-> "r2"],
      [access_token |-> "a1", refresh_token |-> "r1"],
      [access_token |-> "a2"],
      [refresh_token |-> "r2"] }

TokenResponses ==
    { [status |-> 200, body |-> d] : d \in TokenDocs }
      \cup { [status |-> 400, body |-> [error |-> "invalid_grant"]] }

\* --------------------------------------------------------- get_access_token

\* Outcomes of get_access_token(): each is how it ended, the token it
\* returned, token.json afterwards, what it printed and sent, and the
\* token endpoint's answer.
TokenOutcome(e, access, file, printed, sent, resp) ==
    [ending |-> e, access_token |-> access, token |-> file, out |-> printed,
     http |-> sent, refresh |-> resp]

\* (a variant that writes the answer before looking at its status)
RefreshOutcomeSavingFirst(tokenFile, cfg, tok, resp) ==
    LET req == TokenRequest("refresh_token", cfg,
                            [refresh_token |-> tok["refresh_token"]])
        saved == File(resp.body)
    IN  IF resp.status = 200
        THEN IF "access_token" \in DOMAIN resp.body
             THEN TokenOutcome("ok", resp.body["access_token"], saved,
                               <<>>, <<req>>, resp)
             ELSE TokenOutcome("exception", "", saved, <<>>, <<req>>, resp)
        ELSE TokenOutcome("exit1", "", saved,
                          <<Line("token_refresh_error", "response.text"),
                            Line("run_auth_again", "")>>,
                          <<req>>, resp)

\* Lines 88-105: the refresh exchange and what follows its answer.
RefreshOutcome(tokenFile, cfg, tok, resp) ==
    LET req == TokenRequest("refresh_token", cfg,
                            [refresh_token |-> tok["refresh_token"]])
    IN  IF resp.status = 200
        THEN LET saved == save_token(tokenFile, resp.body)
             IN  IF "access_token" \in DOMAIN resp.body
                 THEN TokenOutcome("ok", resp.body["access_token"], saved,
                                   <<>>, <<req>>, resp)
                 ELSE TokenOutcome("exception", "", saved, <<>>, <<req>>, resp)
        ELSE TokenOutcome("exit1", "", tokenFile,
                          <<Line("token_refresh_error", "response.text"),
                            Line("run_auth_again", "")>>,
                          <<req>>, resp)

get_access_token(tokenFile, configFile) ==
    LET tok == load_token(tokenFile)
        cfg == load_config(configFile)
    IN  IF ~Truthy(tok, "access_token")
        THEN { TokenOutcome("exit1", "", tokenFile,
                            <<Line("not_authenticated", "")>>, <<>>, NoResponse) }
        ELSE IF Truthy(tok, "refresh_token")
        THEN IF ~({"client_id", "client_secret"} \subseteq DOMAIN cfg)
             THEN { TokenOutcome("exception", "", tokenFile, <<>>, <<>>, NoResponse) }
             ELSE { RefreshOutcome(tokenFile, cfg, tok, resp) : resp \in TokenResponses }
        ELSE { TokenOutcome("ok", tok["access_token"], tokenFile, <<>>, <<>>,
                            NoResponse) }

\* ------------------------------------------------------------- run results

\* What a run leaves behind.
Result(cfgFile, tokFile, e, printed, sent, resp, picks, answer) ==
    [config |-> cfgFile, token |-> tokFile, ending |-> e, out |-> printed,
     http |-> sent, refresh |-> resp, prompts |-> picks, reply |-> answer]

NoReply == [status |-> 0, kind |-> "none", doc |-> <<>>, text |-> ""]

\* A run that ended inside get_access_token().
TokenFailure(cfgFile, g) ==
    Result(cfgFile, g.token, g.ending, g.out, g.http, g.refresh, <<>>, NoReply)

\* ---------------------------------------------------------------- cmd_setup

SetupInputs == {"", "c1", "c2"} \X {"", "s1"}

cmd_setup(cfgFile, tokFile) ==
    { LET c0 == load_config(cfgFile)
          c1 == IF in[1] # "" THEN Put(c0, "client_id", in[1]) ELSE c0
          c2 == IF in[2] # "" THEN Put(c1, "client_secret", in[2]) ELSE c1
      IN  IF ~Truthy(c2, "client_id") \/ ~Truthy(c2, "client_secret")
          THEN Result(cfgFile, tokFile, "exit1",
                      <<Line("client_id_and_secret_required", "")>>, <<>>,
                      NoResponse, <<>>, NoReply)
          ELSE Result(save_config(cfgFile, c2), tokFile, "ok",
                      <<Line("config_saved", ""), Line("next_run_auth", "")>>,
                      <<>>, NoResponse, <<>>, NoReply)
      : in \in SetupInputs }

\* ----------------------------------------------------------------- cmd_auth

AuthCodes == {"", "code"}

cmd_auth(cfgFile, tokFile) ==
    LET cfg == load_config(cfgFile)
    IN  IF ~Truthy(cfg, "client_id") \/ ~Truthy(cfg, "client_secret")
        THEN { Result(cfgFile, tokFile, "exit1", <<Line("setup_first", "")>>,
                      <<>>, NoResponse, <<>>, NoReply) }
        ELSE UNION {
            IF auth_code = ""
            THEN { Result(cfgFile, tokFile, "exit1",
                          <<Line("auth_url", ""), Line("no_auth_code", "")>>,
                          <<>>, NoResponse, <<>>, NoReply) }
            ELSE { LET req == TokenRequest("authorization_code", cfg,
                                  [code |-> auth_code, redirect_uri |-> REDIRECT_URI])
                   IN  IF resp.status # 200
                       THEN Result(cfgFile, tokFile, "exit1",
                                   <<Line("auth_url", ""),
                                     Line("token_fetch_failed", "response.text")>>,
                                   <<req>>, NoResponse, <<>>, NoReply)
                       ELSE Result(cfgFile, save_token(tokFile, resp.body), "ok",
                                   <<Line("auth_url", ""), Line("auth_ok", ""),
                                     Line("next_run_info", "")>>,
                                   <<req>>, NoResponse, <<>>, NoReply)
                   : resp \in TokenResponses }
            : auth_code \in AuthCodes }

\* ----------------------------------------------------------------- cmd_info

\* The list pickers: what int(input().strip()) makes of the text typed.
\* num is FALSE for text int() rejects with ValueError.
Choices ==
    { [num |-> TRUE, val |-> v] : v \in (0 - MaxList) .. (MaxList + 1) }
      \cup { [num |-> FALSE, val |-> 0] }

\* list[i] of Python for a list of length n: indices -n .. n-1 are valid.
PyIndexOk(n, i) == i >= 0 - n /\ i <= n - 1
PyIndex(list, i) == list[(IF i >= 0 THEN i ELSE Len(list) + i) + 1]

\* companies[int(choice) - 1]
ChoiceOk(list, choice) == choice.num /\ PyIndexOk(Len(list), choice.val - 1)
Chosen(list, choice) == PyIndex(list, choice.val - 1)

\* The i-th company and employee the API lists.
Companies(n) == [i \in 1 .. n |-> [id |-> 10 + i]]
Employees(n) == [i \in 1 .. n |-> [id |-> 20 + i]]

ApiReply(status, kind, doc, text) ==
    [status |-> status, kind |-> kind, doc |-> doc, text |-> text]

\* Answers of a listing endpoint: lists[n] is the list of length n.
ListReplies(key, lists) ==
    { ApiReply(200, "object", [k \in {key} |-> lists[n]], "json") : n \in DOMAIN lists }
      \cup { ApiReply(500, "text", <<>>, "Internal Server Error") }

CompanyReplies == ListReplies("companies", [n \in 0 .. MaxList |-> Companies(n)])
EmployeeReplies == ListReplies("employees", [n \in 0 .. MaxList |-> Employees(n)])

\* Lines 220-247: the employee list, the second picker and the save.
InfoEmployees(cfgFile, tokFile, g, cfg1, reqs, picks) ==
    LET req == ApiRequest("GET", EMPLOYEES, g.access_token, 0,
                          [company_id |-> cfg1["company_id"], limit |-> 100])
        sent == Append(reqs, req)
    IN  UNION {
        IF r.status # 200
        THEN { Result(cfgFile, tokFile, "exit1", <<Line("error", r.text)>>,
                      sent, g.refresh, picks, r) }
        ELSE LET employees == r.doc["employees"]
             IN  IF Len(employees) = 1
                 THEN { Result(save_config(cfgFile,
                                  Put(cfg1, "employee_id", employees[1].id)),
                               tokFile, "ok", <<Line("config_saved", "")>>,
                               sent, g.refresh, picks, r) }
                 ELSE { LET asked == Append(picks,
                                 [list |-> "employees", n |-> Len(employees),
                                  choice |-> choice])
                        IN  IF ~ChoiceOk(employees, choice)
                            THEN Result(cfgFile, tokFile, "exception", <<>>,
                                        sent, g.refresh, asked, r)
                            ELSE Result(save_config(cfgFile,
                                           Put(cfg1, "employee_id",
                                               Chosen(employees, choice).id)),
                                        tokFile, "ok", <<Line("config_saved", "")>>,
                                        sent, g.refresh, asked, r)
                        : choice \in Choices }
        : r \in EmployeeReplies }

\* Lines 193-218: the organization list and the first picker.
InfoCompanies(cfgFile, tokFile, g) ==
    LET cfg == load_config(cfgFile)
        req == ApiRequest("GET", USERS_ME, g.access_token, 0, <<>>)
        sent == Append(g.http, req)
    IN  UNION {
        IF r.status # 200
        THEN { Result(cfgFile, tokFile, "exit1", <<Line("error", r.text)>>,
                      sent, g.refresh, <<>>, r) }
        ELSE LET companies == r.doc["companies"]
             IN  IF Len(companies) = 0
                 THEN { Result(cfgFile, tokFile, "exit1", <<Line("no_company", "")>>,
                               sent, g.refresh, <<>>, r) }
                 ELSE IF Len(companies) = 1
                 THEN InfoEmployees(cfgFile, tokFile, g,
                                    Put(cfg, "company_id", companies[1].id),
                                    sent, <<>>)
                 ELSE UNION {
                        LET asked == <<[list |-> "companies", n |-> Len(companies),
                                        choice |-> choice]>>
                        IN  IF ~ChoiceOk(companies, choice)
                            THEN { Result(cfgFile, tokFile, "exception", <<>>,
                                          sent, g.refresh, asked, r) }
                            ELSE InfoEmployees(cfgFile, tokFile, g,
                                     Put(cfg, "company_id",
                                         Chosen(companies, choice).id),
                                     sent, asked)
                        : choice \in Choices }
        : r \in CompanyReplies }

cmd_info(cfgFile, tokFile) ==
    UNION { IF g.ending # "ok"
            THEN { TokenFailure(cfgFile, g) }
            ELSE InfoCompanies(cfgFile, g.token, g)
            : g \in get_access_token(tokFile, cfgFile) }

\* ------------------------------------------------------------------- dates

\* Local dates datetime.now() may give.
Days == { <<2024, 5, 2>>, <<2024, 3, 1>>, <<2023, 3, 1>>, <<2024, 1, 1>> }

IsLeap(y) == (y % 4 = 0 /\ y % 100 # 0) \/ y % 400 = 0

DaysInMonth(y, m) ==
    IF m = 2 THEN (IF IsLeap(y) THEN 29 ELSE 28)
    ELSE IF m \in {4, 6, 9, 11} THEN 30 ELSE 31

\* (datetime.now() - timedelta(days=1)).strftime("%Y-%m-%d")
Yesterday(today) ==
    LET y == today[1]
        m == today[2]
        d == today[3]
    IN  IF d > 1 THEN <<y, m, d - 1>>
        ELSE IF m > 1 THEN <<y, m - 1, DaysInMonth(y, m - 1)>>
        ELSE <<y - 1, 12, 31>>

\* datetime.fromisoformat(...).strftime("%H:%M:%S"), the raw value on ValueError
ClockTime(text) ==
    CASE text = "2024-05-01T08:59:59Z" -> "08:59:59"
      [] text = "2024-05-01T09:00:15Z" -> "09:00:15"
      [] OTHER -> text

\* ------------------------------------------------------------------- _clock

ClockStatuses == {200, 201, 422}

ClockBodies ==
    { [kind |-> "object", doc |-> [datetime |-> "2024-05-01T08:59:59Z"], text |-> "raw"],
      [kind |-> "object", doc |-> [message |-> "already clocked in", errors |-> "e"],
       text |-> "raw"],
      [kind |-> "object", doc |-> [message |-> "already clocked in"], text |-> "raw"],
      [kind |-> "object", doc |-> [errors |-> "e"], text |-> "raw"],
      [kind |-> "object", doc |-> <<>>, text |-> "raw"],
      [kind |-> "text", doc |-> <<>>, text |-> "Bad Gateway"] }

ClockReplies ==
    { ApiReply(st, b.kind, b.doc, b.text) : st \in ClockStatuses, b \in ClockBodies }

\* error.get("message", error.get("errors", response.text))
ErrorMessage(r) ==
    IF "message" \in DOMAIN r.doc THEN r.doc["message"]
    ELSE IF "errors" \in DOMAIN r.doc THEN r.doc["errors"]
    ELSE r.text

\* Lines 285-287, 329-331, 391-393: the ids every per-employee call needs.
HasIds(cfg) == Truthy(cfg, "company_id") /\ Truthy(cfg, "employee_id")

\* Lines 303-318: what _clock makes of the answer.
ClockAnswer(cfgFile, tokFile, g, sent, r) ==
    IF r.kind # "object"
    THEN Result(cfgFile, tokFile, "exception", <<>>, sent, g.refresh, <<>>, r)
    ELSE IF r.status \in {200, 201}
    THEN LET clock_time == IF "datetime" \in DOMAIN r.doc
                           THEN r.doc["datetime"] ELSE ""
         IN  Result(cfgFile, tokFile, "ok",
                    <<Line("clock_done", ClockTime(clock_time))>>,
                    sent, g.refresh, <<>>, r)
    ELSE Result(cfgFile, tokFile, "exit1",
                <<Line("clock_failed", ErrorMessage(r))>>,
                sent, g.refresh, <<>>, r)

\* Lines 279-318: _clock once get_access_token() has returned.
ClockSubmit(cfgFile, g, clock_type, today) ==
    LET cfg == load_config(cfgFile)
    IN  IF ~HasIds(cfg)
        THEN { Result(cfgFile, g.token, "exit1", <<Line("info_first", "")>>,
                      g.http, g.refresh, <<>>, NoReply) }
        ELSE LET req == ApiRequest("POST", TIME_CLOCKS, g.access_token,
                            cfg["employee_id"],
                            [company_id |-> cfg["company_id"],
                             type |-> clock_type,
                             base_date |-> today])
             IN  { ClockAnswer(cfgFile, g.token, g, Append(g.http, req), r)
                   : r \in ClockReplies }

clock(cfgFile, tokFile, clock_type, today) ==
    UNION { IF g.ending # "ok"
            THEN { TokenFailure(cfgFile, g) }
            ELSE ClockSubmit(cfgFile, g, clock_type, today)
            : g \in get_access_token(tokFile, cfgFile) }

\* --------------------------------------------------------------- cmd_status

\* args of the status command: date is None (given = FALSE), or the text
\* after -d/--date, which argparse does not validate.
StatusArgs ==
    { [given |-> FALSE, date |-> <<>>, yesterday |-> y] : y \in BOOLEAN }
      \cup { [given |-> TRUE, date |-> d, yesterday |-> y]
             : d \in { <<>>, <<2024, 4, 30>> }, y \in BOOLEAN }

NoArgs == [given |-> FALSE, date |-> <<>>, yesterday |-> FALSE]

\* (a variant that lets --yesterday win over --date)
TargetDateYesterdayFirst(a, today) ==
    IF a.yesterday THEN Yesterday(today)
    ELSE IF a.given /\ a.date # <<>> THEN a.date
    ELSE today

\* Lines 334-339.
TargetDate(a, today) ==
    IF a.given /\ a.date # <<>> THEN a.date
    ELSE IF a.yesterday THEN Yesterday(today)
    ELSE today

Punch == <<[type |-> "clock_in", datetime |-> "2024-05-01T09:00:15Z"],
           [type |-> "nap", datetime |-> "soon"]>>

StatusReplies ==
    { ApiReply(200, "array", [items |-> <<>>], "json"),
      ApiReply(200, "array", [items |-> Punch], "json"),
      ApiReply(200, "object", [items |-> Punch], "json"),
      ApiReply(200, "object", <<>>, "json"),
      ApiReply(500, "text", <<>>, "Internal Server Error") }

TypeLabel(t) ==
    CASE t = "clock_in" -> "label_clock_in"
      [] t = "clock_out" -> "label_clock_out"
      [] t = "break_begin" -> "label_break_begin"
      [] t = "break_end" -> "label_break_end"
      [] OTHER -> t

\* Lines 355-382: the lines printed for the records of the day.
StatusLines(r) ==
    LET items == IF "items" \in DOMAIN r.doc THEN r.doc["items"] ELSE <<>>
    IN  IF Len(items) = 0
        THEN <<Line("status_header", ""), Line("no_records", "")>>
        ELSE <<Line("status_header", "")>> \o
             [i \in 1 .. Len(items) |->
                Line(TypeLabel(items[i].type), ClockTime(items[i].datetime))]

cmd_status(cfgFile, tokFile, a, today) ==
    UNION { IF g.ending # "ok"
            THEN { TokenFailure(cfgFile, g) }
            ELSE LET cfg == load_config(cfgFile)
                 IN  IF ~HasIds(cfg)
                     THEN { Result(cfgFile, g.token, "exit1",
                                   <<Line("info_first", "")>>, g.http, g.refresh,
                                   <<>>, NoReply) }
                     ELSE LET target_date == TargetDate(a, today)
                              req == ApiRequest("GET", TIME_CLOCKS, g.access_token,
                                         cfg["employee_id"],
                                         [company_id |-> cfg["company_id"],
                                          from_date |-> target_date,
                                          to_date |-> target_date])
                              sent == Append(g.http, req)
                          IN  { IF r.status # 200
                                THEN Result(cfgFile, g.token, "exit1",
                                            <<Line("error", r.text)>>, sent,
                                            g.refresh, <<>>, r)
                                ELSE Result(cfgFile, g.token, "ok", StatusLines(r),
                                            sent, g.refresh, <<>>, r)
                                : r \in StatusReplies }
            : g \in get_access_token(tokFile, cfgFile) }

\* ------------------------------------------------------------ cmd_available

AvailableReplies ==
    { ApiReply(200, "object", [available_types |-> <<"clock_out", "nap">>], "json"),
      ApiReply(200, "object", [types |-> <<"clock_in">>], "json"),
      ApiReply(200, "object", <<>>, "json"),
      ApiReply(500, "text", <<>>, "Internal Server Error") }

\* result.get("available_types", result.get("types", []))
AvailableLines(r) ==
    LET types == IF "available_types" \in DOMAIN r.doc THEN r.doc["available_types"]
                 ELSE IF "types" \in DOMAIN r.doc THEN r.doc["types"]
                 ELSE <<>>
    IN  IF Len(types) = 0
        THEN <<Line("available_header", ""), Line("none_available", "")>>
        ELSE <<Line("available_header", "")>> \o
             [i \in 1 .. Len(types) |-> Line("type", TypeLabel(types[i]))]

cmd_available(cfgFile, tokFile, today) ==
    UNION { IF g.ending # "ok"
            THEN { TokenFailure(cfgFile, g) }
            ELSE LET cfg == load_config(cfgFile)
                 IN  IF ~HasIds(cfg)
                     THEN { Result(cfgFile, g.token, "exit1",
                                   <<Line("info_first", "")>>, g.http, g.refresh,
                                   <<>>, NoReply) }
                     ELSE LET req == ApiRequest("GET", AVAILABLE_TYPES, g.access_token,
                                         cfg["employee_id"],
                                         [company_id |-> cfg["company_id"],
                                          date |-> today])
                              sent == Append(g.http, req)
                          IN  { IF r.status # 200
                                THEN Result(cfgFile, g.token, "exit1",
                                            <<Line("error", r.text)>>, sent,
                                            g.refresh, <<>>, r)
                                ELSE Result(cfgFile, g.token, "ok", AvailableLines(r),
                                            sent, g.refresh, <<>>, r)
                                : r \in AvailableReplies }
            : g \in get_access_token(tokFile, cfgFile) }

\* ----------------------------------------------------- the sequential model

\* Documents config.json and token.json may hold before a command runs.
ConfigDocs ==
    UNION { { d \in [ks -> {"", "c1", "s1"}] :
                /\ "client_id" \in ks => d["client_id"] \in {"", "c1"}
                /\ "client_secret" \in ks => d["client_secret"] \in {"", "s1"} }
            : ks \in SUBSET {"client_id", "client_secret"} }

IdDocs ==
    UNION { { d \in [ks -> {11, 21}] :
                /\ "company_id" \in ks => d["company_id"] = 11
                /\ "employee_id" \in ks => d["employee_id"] = 21 }
            : ks \in SUBSET {"company_id", "employee_id"} }

InitConfigs == {NoFile} \cup { File(c @@ i) : c \in ConfigDocs, i \in IdDocs }

InitTokens ==
    {NoFile, File(<<>>), File([refresh_token |-> "r1"]),
     File([access_token |-> "", refresh_token |-> "r1"]),
     File([access_token |-> "a1"]),
     File([access_token |-> "a1", refresh_token |-> ""]),
     File([access_token |-> "a1", refresh_token |-> "r1"])}

AtPrompt == ending = "none"

Init ==
    /\ config \in InitConfigs
    /\ token \in InitTokens
    /\ cmd = "" /\ args = NoArgs /\ now = <<>>
    /\ config0 = config /\ token0 = token
    /\ ending = "none" /\ out = <<>> /\ http = <<>>
    /\ refresh = NoResponse /\ prompts = <<>> /\ reply = NoReply
    /\ pc = <<>> /\ local = <<>>

\* One run of `command`, leaving `r` behind.
Run(command, a, today, r) ==
    /\ cmd' = command /\ args' = a /\ now' = today
    /\ config0' = config /\ token0' = token
    /\ config' = r.config /\ token' = r.token
    /\ ending' = r.ending /\ out' = r.out /\ http' = r.http
    /\ refresh' = r.refresh /\ prompts' = r.prompts /\ reply' = r.reply
    /\ UNCHANGED concVars

Setup == AtPrompt /\ \E r \in cmd_setup(config, token) : Run("setup", NoArgs, <<>>, r)

Auth == AtPrompt /\ \E r \in cmd_auth(config, token) : Run("auth", NoArgs, <<>>, r)

Info == AtPrompt /\ \E r \in cmd_info(config, token) : Run("info", NoArgs, <<>>, r)

ClockIn ==
    AtPrompt /\ \E today \in Days : \E r \in clock(config, token, "clock_in", today) :
        Run("in", NoArgs, today, r)

ClockOut ==
    AtPrompt /\ \E today \in Days : \E r \in clock(config, token, "clock_out", today) :
        Run("out", NoArgs, today, r)

BreakBegin ==
    AtPrompt /\ \E today \in Days : \E r \in clock(config, token, "break_begin", today) :
        Run("break-begin", NoArgs, today, r)

BreakEnd ==
    AtPrompt /\ \E today \in Days : \E r \in clock(config, token, "break_end", today) :
        Run("break-end", NoArgs, today, r)

Status ==
    AtPrompt /\ \E a \in StatusArgs, today \in Days :
        \E r \in cmd_status(config, token, a, today) : Run("status", a, today, r)

Available ==
    AtPrompt /\ \E today \in Days : \E r \in cmd_available(config, token, today) :
        Run("available", NoArgs, today, r)

\* Lines 475-478: no subcommand, main() prints the help and returns.
Help ==
    AtPrompt /\ Run("", NoArgs, <<>>,
                    Result(config, token, "ok", <<Line("help", "")>>, <<>>,
                           NoResponse, <<>>, NoReply))

\* The process has exited and the user is back at the shell prompt: nothing
\* of the run survives but the two files.
Shell ==
    /\ ~AtPrompt
    /\ cmd' = "" /\ args' = NoArgs /\ now' = <<>>
    /\ config0' = config /\ token0' = token
    /\ ending' = "none" /\ out' = <<>> /\ http' = <<>>
    /\ refresh' = NoResponse /\ prompts' = <<>> /\ reply' = NoReply
    /\ UNCHANGED <<config, token, pc, local>>

Next ==
    \/ Setup \/ Auth \/ Info
    \/ ClockIn \/ ClockOut \/ BreakBegin \/ BreakEnd
    \/ Status \/ Available
    \/ Help
    \/ Shell

Spec == Init /\ [][Next]_vars

\* ------------------------------------------------- properties of one run

Finished == ending # "none"
Failed == ending \in {"exit1", "exception"}

ClockCommands == {"in", "out", "break-begin", "break-end"}
AuthenticatedCommands == {"info", "status", "available"} \cup ClockCommands

TokenRequests == SelectSeq(http, LAMBDA q : q.url = TOKEN_URL)
ApiRequests == SelectSeq(http, LAMBDA q : q.url # TOKEN_URL)

\* The file holds a non-empty value under the key.
Holds(file, k) == file.exists /\ k \in DOMAIN file.doc /\ file.doc[k] # ""
HoldsId(file, k) == file.exists /\ k \in DOMAIN file.doc /\ file.doc[k] # 0

\* C1 (as stated): a run that ends in failure leaves config.json and
\* token.json exactly as they were when it started.
C1_FailureWritesNothing ==
    Failed => config = config0 /\ token = token0

\* C1 (amended): a run that ends in failure leaves config.json as it was,
\* and leaves token.json as it was unless its refresh exchange returned
\* HTTP 200, in which case token.json holds the refresh response.
C1_FailureKeepsConfigAndWritesOnlyARefreshedToken ==
    Failed =>
        /\ config = config0
        /\ \/ token = token0
           \/ /\ cmd \in AuthenticatedCommands
              /\ refresh.status = 200
              /\ token = File(refresh.body)

C1_Witness ==
    /\ cmd = "in" /\ ending = "exit1"
    /\ refresh.status = 200 /\ token # token0
    /\ reply.status = 422

\* C2: an authenticated command started without a non-empty access_token in
\* token.json (no file, an empty object, or the key absent or empty) exits
\* non-zero, sends no HTTP request at all and writes neither file.
C2_NoAccessTokenNoRequest ==
    (Finished /\ cmd \in AuthenticatedCommands /\ ~Holds(token0, "access_token")) =>
        /\ ExitCode(ending) # 0
        /\ http = <<>>
        /\ config = config0 /\ token = token0

C2_Witness ==
    /\ cmd = "status" /\ ending = "exit1" /\ http = <<>>
    /\ token0 = File([access_token |-> "", refresh_token |-> "r1"])
    /\ Holds(config0, "client_id") /\ HoldsId(config0, "company_id")

PrintsInstruction == \E i \in DOMAIN out : Instructs(out[i].msg) # ""

\* C3: a missing precondition is a handled fatal error; in the case the
\* claim names, an authenticated command started with an access_token and a
\* refresh_token in token.json and no client_id or no client_secret in
\* config.json ends by printing a message that names the command to run
\* first and exit code 1, never by an unhandled exception.
C3_MissingCredentialsAreHandled ==
    (/\ Finished /\ cmd \in AuthenticatedCommands
     /\ Holds(token0, "access_token") /\ Holds(token0, "refresh_token")
     /\ \/ "client_id" \notin DOMAIN load_config(config0)
        \/ "client_secret" \notin DOMAIN load_config(config0)) =>
        ending = "exit1" /\ PrintsInstruction

\* C4: a run of an authenticated command that starts with an access_token and
\* a refresh_token stored sends exactly one refresh exchange, before any API
\* request, and every API request carries the access_token of the refresh
\* response; with no refresh_token stored no token request is sent and the
\* stored access_token is the bearer.
C4_AlwaysRefresh ==
    (Finished /\ cmd \in AuthenticatedCommands /\ Holds(token0, "access_token")) =>
        IF Holds(token0, "refresh_token")
        THEN /\ Len(TokenRequests) = 1
             /\ http[1].url = TOKEN_URL /\ http[1].grant = "refresh_token"
             /\ \A i \in DOMAIN ApiRequests :
                    /\ "access_token" \in DOMAIN refresh.body
                    /\ ApiRequests[i].bearer = refresh.body["access_token"]
        ELSE /\ Len(TokenRequests) = 0
             /\ \A i \in DOMAIN ApiRequests :
                    ApiRequests[i].bearer = token0.doc["access_token"]

\* C5: after a refresh exchange answered with HTTP 200, token.json is the
\* refresh response and nothing else (fields stored before and absent from
\* the response are gone); after any other answer token.json is unchanged
\* and the command exits non-zero.
C5_RefreshReplaces ==
    (Finished /\ cmd \in AuthenticatedCommands /\ refresh.status # 0) =>
        IF refresh.status = 200
        THEN token = File(refresh.body)
        ELSE token = token0 /\ ExitCode(ending) # 0

C5_Witness ==
    /\ cmd \in AuthenticatedCommands /\ refresh.status = 200
    /\ "refresh_token" \in DOMAIN token0.doc
    /\ "refresh_token" \notin DOMAIN refresh.body
    /\ "refresh_token" \notin DOMAIN token.doc

\* The keys a command supplies when it writes config.json.
Supplies(command) ==
    CASE command = "setup" -> {"client_id", "client_secret"}
      [] command = "info" -> {"company_id", "employee_id"}
      [] OTHER -> {}

\* C6: setup and info write config.json exactly when they succeed; the
\* document written has the keys held before plus the keys the command
\* supplies, and every other key keeps its value.  No other run changes
\* config.json.
C6_ConfigMergeKeepsKeys ==
    Finished =>
        IF cmd \in {"setup", "info"} /\ ending = "ok"
        THEN /\ config.exists
             /\ DOMAIN config.doc = DOMAIN load_config(config0) \cup Supplies(cmd)
             /\ \A k \in DOMAIN load_config(config0) \ Supplies(cmd) :
                    config.doc[k] = config0.doc[k]
        ELSE config = config0

C6_Witness ==
    /\ cmd = "info" /\ ending = "ok"
    /\ Holds(config0, "client_id") /\ Holds(config0, "client_secret")
    /\ ~HoldsId(config0, "company_id")
    /\ Holds(config, "client_id") /\ HoldsId(config, "company_id")
    /\ HoldsId(config, "employee_id")

\* The answer typed at a picker is an integer in 1 .. n.
InRange(p) == p.choice.num /\ p.choice.val \in 1 .. p.n

\* C7: in info, an answer to a picker that is not an integer in 1 .. N ends
\* the command in a fatal error, with no entry selected and config.json not
\* written.
C7_BadChoiceIsFatal ==
    (Finished /\ cmd = "info") =>
        \A i \in DOMAIN prompts :
            ~InRange(prompts[i]) => Failed /\ config = config0

\* C8: a clock command that got an answer to its submission ends, on HTTP 200
\* or 201, with a success line and exit code 0; on any other status, whatever
\* the body, with the error message (message, else errors, else the raw
\* body) printed and a non-zero exit code.
C8_ClockClassifiesEveryAnswer ==
    (Finished /\ cmd \in ClockCommands /\ reply.status # 0) =>
        IF reply.status \in {200, 201}
        THEN /\ ending = "ok"
             /\ \E i \in DOMAIN out : out[i].msg = "clock_done"
        ELSE /\ ExitCode(ending) # 0
             /\ \E i \in DOMAIN out :
                    /\ out[i].msg = "clock_failed"
                    /\ out[i].arg =
                         (IF "message" \in DOMAIN reply.doc THEN reply.doc["message"]
                          ELSE IF "errors" \in DOMAIN reply.doc THEN reply.doc["errors"]
                          ELSE reply.text)

\* The status query of the run, if it was sent.
StatusQuerySent ==
    /\ cmd = "status" /\ Len(ApiRequests) = 1
StatusQuery == ApiRequests[1].sent

\* C9 (as stated): the status query asks for one day, the --date value if
\* one is given, else the day before the local date with --yesterday, else
\* the local date.
C9_DateGivenWins ==
    StatusQuerySent =>
        /\ StatusQuery["from_date"] = StatusQuery["to_date"]
        /\ StatusQuery["from_date"] =
             (IF args.given THEN args.date
              ELSE IF args.yesterday THEN Yesterday(now) ELSE now)

\* C9 (amended): the status query asks for one day: the --date value if a
\* non-empty one is given, else the day before the local date with
\* --yesterday, else the local date; on 2024-05-02, --yesterday alone asks
\* for 2024-05-01 .. 2024-05-01.
C9_NonEmptyDateWins ==
    StatusQuerySent =>
        /\ StatusQuery["from_date"] = StatusQuery["to_date"]
        /\ (args.given /\ args.date # <<>>) =>
               StatusQuery["from_date"] = args.date
        /\ (~(args.given /\ args.date # <<>>) /\ args.yesterday) =>
               /\ StatusQuery["from_date"] = Yesterday(now)
               /\ now = <<2024, 5, 2>> => StatusQuery["to_date"] = <<2024, 5, 1>>
               /\ now = <<2024, 3, 1>> => StatusQuery["to_date"] = <<2024, 2, 29>>
               /\ now = <<2024, 1, 1>> => StatusQuery["to_date"] = <<2023, 12, 31>>
        /\ (~(args.given /\ args.date # <<>>) /\ ~args.yesterday) =>
               StatusQuery["from_date"] = now

C9_Witness ==
    /\ StatusQuerySent /\ ending = "ok"
    /\ args.given /\ args.date = <<2024, 4, 30>> /\ args.yesterday
    /\ now = <<2024, 5, 2>>
    /\ StatusQuery["from_date"] = <<2024, 4, 30>>
    /\ StatusQuery["to_date"] = <<2024, 4, 30>>

\* ----------------------------------------------------- the concurrent model

\* Two invocations started in the same directory.
Procs == {1, 2}
ConcCommands == {"setup", "info", "in"}

ConcConfigs ==
    { NoFile,
      File([client_id |-> "c1", client_secret |-> "s1"]),
      File([client_id |-> "c1", client_secret |-> "s1",
            company_id |-> 11, employee_id |-> 21]) }

ConcTokens ==
    { File([access_token |-> "a1"]),
      File([access_token |-> "a1", refresh_token |-> "r1"]) }

Locals(command) ==
    [cmd |-> command, tokenRead |-> NoFile, configRead |-> NoFile,
     access_token |-> "", cfgSeq |-> 0, cfgDoc |-> <<>>,
     tokSeq |-> 0, tokDoc |-> <<>>]

InitConc ==
    /\ config \in ConcConfigs
    /\ token \in ConcTokens
    /\ cmd = "" /\ args = NoArgs /\ now = <<>>
    /\ config0 = config /\ token0 = token
    /\ ending = "none" /\ out = <<>> /\ http = <<>>
    /\ refresh = NoResponse /\ prompts = <<>> /\ reply = NoReply
    /\ pc = [p \in Procs |-> "start"]
    /\ local \in [Procs -> {Locals(c) : c \in ConcCommands}]

Writes(which) == Cardinality({q \in Procs : local[q][which] > 0})

\* Lines 80-81: get_access_token reads both files.
CLoadToken(p) ==
    /\ pc[p] = "start" /\ local[p].cmd # "setup"
    /\ local' = [local EXCEPT ![p].tokenRead = token, ![p].configRead = config]
    /\ pc' = [pc EXCEPT ![p] = "token_loaded"]
    /\ UNCHANGED <<config, token>> /\ UNCHANGED seqVars

\* Lines 83-107: the rest of get_access_token, on what it read.
CRefresh(p) ==
    /\ pc[p] = "token_loaded"
    /\ \E g \in get_access_token(local[p].tokenRead, local[p].configRead) :
        /\ IF g.refresh.status = 200
           THEN /\ token' = save_token(token, g.refresh.body)
                /\ local' = [local EXCEPT ![p].access_token = g.access_token,
                                          ![p].tokSeq = Writes("tokSeq") + 1,
                                          ![p].tokDoc = g.refresh.body]
           ELSE /\ token' = token
                /\ local' = [local EXCEPT ![p].access_token = g.access_token]
        /\ pc' = [pc EXCEPT ![p] = IF g.ending = "ok" THEN "authed" ELSE "failed"]
    /\ UNCHANGED config /\ UNCHANGED seqVars

\* Lines 114, 188, 279: load_config().
CLoadConfig(p) ==
    /\ \/ pc[p] = "start" /\ local[p].cmd = "setup"
       \/ pc[p] = "authed"
    /\ local' = [local EXCEPT ![p].configRead = config]
    /\ pc' = [pc EXCEPT ![p] = "config_loaded"]
    /\ UNCHANGED <<config, token>> /\ UNCHANGED seqVars

\* A command that has loaded config.json ends with result r: it writes the
\* document it holds in memory when r says it saved it.
CFinish(p, r) ==
    /\ IF r.ending = "ok" /\ local[p].cmd \in {"setup", "info"}
       THEN /\ config' = save_config(config, r.config.doc)
            /\ local' = [local EXCEPT ![p].cfgSeq = Writes("cfgSeq") + 1,
                                      ![p].cfgDoc = r.config.doc]
       ELSE UNCHANGED <<config, local>>
    /\ pc' = [pc EXCEPT ![p] = IF r.ending = "ok" THEN "done" ELSE "failed"]
    /\ UNCHANGED token /\ UNCHANGED seqVars

Authed(p) ==
    TokenOutcome("ok", local[p].access_token, token, <<>>, <<>>, NoResponse)

\* Lines 116-128.
CSetupSave(p) ==
    /\ pc[p] = "config_loaded" /\ local[p].cmd = "setup"
    /\ \E r \in cmd_setup(local[p].configRead, token) : CFinish(p, r)

\* Lines 189-247.
CInfoSave(p) ==
    /\ pc[p] = "config_loaded" /\ local[p].cmd = "info"
    /\ \E r \in InfoCompanies(local[p].configRead, token, Authed(p)) : CFinish(p, r)

\* Lines 280-318.
CClock(p) ==
    /\ pc[p] = "config_loaded" /\ local[p].cmd = "in"
    /\ \E today \in Days :
         \E r \in ClockSubmit(local[p].configRead, Authed(p), "clock_in", today) :
            CFinish(p, r)

NextConc ==
    \E p \in Procs :
        \/ CLoadToken(p)
        \/ CRefresh(p)
        \/ CLoadConfig(p)
        \/ CSetupSave(p)
        \/ CInfoSave(p)
        \/ CClock(p)

SpecConc == InitConc /\ [][NextConc]_vars

LastWriter(p, which) ==
    /\ local[p][which] > 0
    /\ \A q \in Procs : local[q][which] <= local[p][which]

ConcSupplies(p) == Supplies(local[p].cmd)

\* C10: nothing locks the files between a read and the write that follows.
\* config.json after the last write holds, for every key its writer did not
\* supply, exactly what that writer read when it loaded the file, whatever
\* another invocation wrote in between; token.json after the last refresh is
\* that refresh's response alone.  So two invocations can both exit 0 with a
\* key written by one of them missing from the file (the witness).
C10_LastWriterOverwritesFromItsOwnRead ==
    \A p \in Procs :
        /\ LastWriter(p, "cfgSeq") =>
             /\ config.exists
             /\ DOMAIN config.doc \ ConcSupplies(p)
                  = DOMAIN load_config(local[p].configRead) \ ConcSupplies(p)
             /\ \A k \in DOMAIN config.doc \ ConcSupplies(p) :
                    config.doc[k] = local[p].configRead.doc[k]
        /\ LastWriter(p, "tokSeq") => token = File(local[p].tokDoc)

C10_Witness ==
    \E p, q \in Procs :
        /\ pc[p] = "done" /\ pc[q] = "done"
        /\ local[p].cmd = "setup" /\ local[q].cmd = "info"
        /\ local[q].cfgSeq = 1 /\ local[p].cfgSeq = 2
        /\ "company_id" \in DOMAIN local[q].cfgDoc
        /\ "company_id" \notin DOMAIN config.doc

====
